---- MODULE Spec2Model ----
(***************************************************************************)
(* Settlement evaluation of the batch-auction driver:                      *)
(*   crates/solver/src/driver/solver_settlements.rs                        *)
(*     - retain_mature_settlements / find_mature_settlements: the maturity *)
(*       filter, a fixed-point loop over the (solver, settlement) pairs,   *)
(*       followed by the rejection notifications and the filtered return;  *)
(*     - compute_objective_value / RatedSettlement::objective_value: the   *)
(*       ranking key, in exact rational arithmetic (num::BigRational).     *)
(* The filter is modelled one loop iteration per step; the objective value *)
(* is a pure operator over normalised fractions.                           *)
(***************************************************************************)
EXTENDS Integers, Sequences, FiniteSets, TLC

VARIABLES
    \* ---- arguments of retain_mature_settlements and the clock ----
    settlements,               \* Vec<(Arc<dyn Solver>, Settlement)>
    min_order_age,             \* Duration, in seconds
    auction_id,                \* AuctionId
    now,                       \* chrono::offset::Utc::now(), in seconds
    \* ---- locals of find_mature_settlements ----
    pc,                        \* position in retain_mature_settlements
    settle_orders_older_than,  \* the cutoff, line 69
    valid_trades,              \* HashSet<&OrderUid>, line 72
    valid_settlement_indices,  \* HashSet<usize>, line 73
    new_order_added,           \* line 76
    index,                     \* the for loop's (and the notification loop's) index, 1-based
    \* ---- effects ----
    notifications,             \* calls of Solver::notify_auction_result, in call order
    result,                    \* the returned Vec
    \* ---- history of the loop (not program state) ----
    passes,                    \* number of passes of `loop` begun so far
    marked,                    \* indices in the order line 94 inserted them
    \* ---- RatedSettlement and its objective value ----
    rated,                     \* the RatedSettlement under evaluation
    obj_value,                 \* what objective_value() returned
    opc,                       \* position of the objective-value computation
    \* ---- the solvers' Solution DTO and its encoding ----
    solution,                  \* the Solution handed to the serializer
    encoded,                   \* the JSON value serde's Serialize produced
    spc                        \* position of the serialization

vars == << settlements, min_order_age, auction_id, now, pc,
           settle_orders_older_than, valid_trades, valid_settlement_indices,
           new_order_added, index, notifications, result, passes, marked,
           rated, obj_value, opc, solution, encoded, spc >>

filter_vars == << settlements, min_order_age, auction_id, now, pc,
                  settle_orders_older_than, valid_trades,
                  valid_settlement_indices, new_order_added, index,
                  notifications, result, passes, marked >>

objective_vars == << rated, obj_value, opc >>

solution_vars == << solution, encoded, spc >>

(***************************************************************************)
(* Bounds of the model.                                                    *)
(***************************************************************************)
\* longest list of (solver, settlement) pairs handed to the filter
MaxSettlements == 3

\* largest numerator and denominator of the rated amounts, largest gas estimate
MaxNum == 3

MaxDen == 3

MaxGas == 2

\* latest reading of the clock, in seconds; the filter is called at 2 or later
MaxNow == 4

\* longest list handed to the filter under the running clock
MaxClockSettlements == 2

(***************************************************************************)
(* Orders, trades and settlements (model::order, crate::settlement).       *)
(***************************************************************************)
\* OrderClass: Market and Limit orders are user orders, Liquidity is not.
UserClasses == {"Market", "Limit"}

\* The trades solvers pick from in one auction, as the tests' helper
\* trade(created_at, uid, class) builds them.  Uids are unique in an auction.
\* The filter is called at now = 2.  With min_order_age = 1 orders 1 and 2
\* are recent (age 0), order 3 is exactly min_order_age old and order 4 is
\* an older liquidity order; with min_order_age = 0 every order is old enough.
TradePool ==
    << [uid |-> 1, creation_date |-> 2, class |-> "Market"],
       [uid |-> 2, creation_date |-> 2, class |-> "Limit"],
       [uid |-> 3, creation_date |-> 1, class |-> "Market"],
       [uid |-> 4, creation_date |-> 0, class |-> "Liquidity"] >>

\* the elements of a sequence, as a set
Elems(s) == { s[k] : k \in DOMAIN s }

RECURSIVE SubSeqAt(_, _, _)
\* the subsequence of s at the positions in mask, from position k on
SubSeqAt(s, mask, k) ==
    IF k > Len(s) THEN << >>
    ELSE (IF k \in mask THEN << s[k] >> ELSE << >>) \o SubSeqAt(s, mask, k + 1)

\* Settlement::with_default_prices(trades): any selection of the pool's trades
Settlements ==
    { [trades |-> SubSeqAt(TradePool, mask, 1)] : mask \in SUBSET DOMAIN TradePool }

\* the solver handles (Arc<dyn Solver>); one solver may hand in several
\* settlements, so handles repeat in the list
SolverHandles == << "solver_a", "solver_b" >>

\* the handle paired with the settlement at position i of the list
SolverAt(i) == SolverHandles[((i - 1) % Len(SolverHandles)) + 1]

\* Rejected(SolverRejectionReason::NoMatureOrders)
RejectedNoMatureOrders == "Rejected(NoMatureOrders)"

\* Settlement::trades
trades(settlement) == settlement.trades

IsUserTrade(trade) == trade.class \in UserClasses

\* Settlement::user_trades: the trades whose order is a Market or Limit order
user_trades(settlement) == SelectSeq(trades(settlement), IsUserTrade)

\* has_user_order
has_user_order(settlement) == Len(user_trades(settlement)) > 0

(***************************************************************************)
(* find_mature_settlements: the body of the for loop.                      *)
(***************************************************************************)
\* slip: the age comparison the wrong way round
IsValidTradeFlipped(trade, cutoff, valid) ==
    \/ trade.creation_date >= cutoff
    \/ trade.uid \in valid

\* slip: the clock read again where the cutoff taken before the loop is meant
IsValidTradeReadingClock(trade, cutoff, valid) ==
    \/ trade.creation_date <= now - min_order_age
    \/ trade.uid \in valid

\* lines 84-86: the closure of settlement.user_trades().any(..)
IsValidTrade(trade, cutoff, valid) ==
    \/ trade.creation_date <= cutoff      \* mature by age
    \/ trade.uid \in valid                \* mature by association

\* slip: all() where any() is meant
contains_only_valid_user_trades(settlement, cutoff, valid) ==
    \A trade \in Elems(user_trades(settlement)) : IsValidTrade(trade, cutoff, valid)

\* lines 82-87
contains_valid_user_trade(settlement, cutoff, valid) ==
    \E trade \in Elems(user_trades(settlement)) : IsValidTrade(trade, cutoff, valid)

\* slip: trades() where user_trades() is meant
InsertedUidsOfAllTrades(settlement) == { trade.uid : trade \in Elems(trades(settlement)) }

\* lines 90-93: the uids valid_trades.insert is called with
InsertedUids(settlement) == { trade.uid : trade \in Elems(user_trades(settlement)) }

\* the loop's state: valid_trades, valid_settlement_indices, new_order_added
LoopState(vt, vsi, noa) ==
    [valid_trades |-> vt, valid_settlement_indices |-> vsi, new_order_added |-> noa]

\* slip: new_order_added = insert(..) where |= is meant
ForBodyAssigning(st, list, i, cutoff) ==
    IF i \in st.valid_settlement_indices
    THEN st
    ELSE IF contains_valid_user_trade(list[i].settlement, cutoff, st.valid_trades)
         THEN LET ut == user_trades(list[i].settlement)
                  before == st.valid_trades \cup { ut[k].uid : k \in 1..(Len(ut) - 1) }
              IN  LoopState(
                      st.valid_trades \cup InsertedUids(list[i].settlement),
                      st.valid_settlement_indices \cup {i},
                      ut[Len(ut)].uid \notin before)
         ELSE st

\* slip: only the uids of the qualifying trades are inserted
ForBodyInsertingQualifying(st, list, i, cutoff) ==
    IF i \in st.valid_settlement_indices
    THEN st
    ELSE IF contains_valid_user_trade(list[i].settlement, cutoff, st.valid_trades)
         THEN LET qualifying ==
                      { trade.uid : trade \in
                          { t \in Elems(user_trades(list[i].settlement)) :
                              IsValidTrade(t, cutoff, st.valid_trades) } }
              IN  LoopState(
                      st.valid_trades \cup qualifying,
                      st.valid_settlement_indices \cup {i},
                      st.new_order_added \/ (qualifying \ st.valid_trades # {}))
         ELSE st

\* lines 78-96: one iteration of the for loop, at (0-based) index i - 1
ForBody(st, list, i, cutoff) ==
    IF i \in st.valid_settlement_indices
    THEN st                                                   \* continue
    ELSE IF contains_valid_user_trade(list[i].settlement, cutoff, st.valid_trades)
         THEN LoopState(
                  st.valid_trades \cup InsertedUids(list[i].settlement),
                  st.valid_settlement_indices \cup {i},
                  st.new_order_added
                      \/ (InsertedUids(list[i].settlement) \ st.valid_trades # {}))
         ELSE st

\* slip: the break condition negated
LoopBreaksInverted(noa) == noa

\* slip: the loop is left after its first pass
LoopBreaksAfterFirstPass(noa) == TRUE

\* line 98: the loop is left when the pass added no order
LoopBreaks(noa) == ~noa

RECURSIVE RunPass(_, _, _, _)
\* lines 78-96: the for loop from position i on
RunPass(st, list, i, cutoff) ==
    IF i > Len(list) THEN st
    ELSE RunPass(ForBody(st, list, i, cutoff), list, i + 1, cutoff)

RECURSIVE RunLoop(_, _, _)
\* lines 75-101: passes until one adds no order; the value of `break`
RunLoop(st, list, cutoff) ==
    LET after == RunPass(LoopState(st.valid_trades, st.valid_settlement_indices, FALSE),
                         list, 1, cutoff)
    IN  IF LoopBreaks(after.new_order_added)
        THEN after.valid_settlement_indices
        ELSE RunLoop(after, list, cutoff)

\* lines 65-102, as a function of the list and the cutoff taken at line 69
find_mature_settlements(list, cutoff) == RunLoop(LoopState({}, {}, FALSE), list, cutoff)

(***************************************************************************)
(* BigRational (num): fractions kept in lowest terms, denominator > 0.     *)
(***************************************************************************)
Abs(x) == IF x < 0 THEN -x ELSE x

RECURSIVE GCD(_, _)
GCD(a, b) == IF b = 0 THEN Abs(a) ELSE GCD(b, a % b)

\* Ratio::new: reduce, and keep the sign in the numerator
Rat(n, d) ==
    LET g == GCD(n, d)
        sgn == IF d < 0 THEN -1 ELSE 1
    IN  [num |-> sgn * (n \div g), den |-> sgn * (d \div g)]

\* BigRational::from_integer
FromInteger(n) == [num |-> n, den |-> 1]

RatAdd(a, b) == Rat(a.num * b.den + b.num * a.den, a.den * b.den)

RatSub(a, b) == Rat(a.num * b.den - b.num * a.den, a.den * b.den)

RatMul(a, b) == Rat(a.num * b.num, a.den * b.den)

\* U256Ext::to_big_rational
to_big_rational(u) == FromInteger(u)

(***************************************************************************)
(* compute_objective_value and RatedSettlement::objective_value.           *)
(***************************************************************************)
\* slip: the gas cost added where it is subtracted
compute_objective_value_adding_cost(surplus, solver_fees, gas_estimate, gas_price) ==
    LET cost == RatMul(gas_estimate, gas_price)
    IN  RatAdd(RatAdd(surplus, solver_fees), cost)

\* lines 30-38
compute_objective_value(surplus, solver_fees, gas_estimate, gas_price) ==
    LET cost == RatMul(gas_estimate, gas_price)
    IN  RatSub(RatAdd(surplus, solver_fees), cost)

\* slip: the subsidized fee where the unsubsidized one is meant
objective_value_of_subsidized_fee(self) ==
    LET gas_estimate == to_big_rational(self.gas_estimate)
    IN  compute_objective_value(self.surplus, self.unscaled_subsidized_fee,
                                gas_estimate, self.gas_price)

\* lines 41-49
objective_value(self) ==
    LET gas_estimate == to_big_rational(self.gas_estimate)
    IN  compute_objective_value(self.surplus, self.scaled_unsubsidized_fee,
                                gas_estimate, self.gas_price)

(***************************************************************************)
(* retain_mature_settlements, step by step.                                *)
(***************************************************************************)
\* the (solver, settlement) pairs of a list of settlements, as
\* settlements_into_dummy_solver_settlements pairs them
SolverSettlementList(ss) ==
    [i \in DOMAIN ss |-> [solver |-> SolverAt(i), settlement |-> ss[i]]]

\* the calls of the filter: the age threshold in seconds and the auction.
\* With a threshold of 0 every order created up to now is old enough.
Calls == { [min_order_age |-> 0, auction_id |-> 1],
           [min_order_age |-> 1, auction_id |-> 2] }

\* the JSON null: nothing has been encoded
Null == [type |-> "null"]

\* no Solution is handed to the serializer
NoSolution == [prices |-> << >>, trades |-> << >>, interactions |-> << >>]

\* no RatedSettlement is under evaluation
NoRated == [surplus |-> FromInteger(0), unscaled_subsidized_fee |-> FromInteger(0),
            scaled_unsubsidized_fee |-> FromInteger(0), gas_estimate |-> 0,
            gas_price |-> FromInteger(0)]

\* slip: the notification loop without its filter
ExcludedUnfiltered(n, valid, i) == i..n

\* lines 106-109: the next index at or after i the notification loop's filter lets through
Excluded(n, valid, i) == { j \in i..n : j \notin valid }

Min(S) == CHOOSE x \in S : \A y \in S : x <= y

\* slip: the pairs collected in the order the loop marked them
RetainedAsMarked(list, valid, i) == [k \in DOMAIN marked |-> list[marked[k]]]

RECURSIVE Retained(_, _, _)
\* lines 121-126: into_iter().enumerate().filter(contains).map(item).collect(), from position i on
Retained(list, valid, i) ==
    IF i > Len(list) THEN << >>
    ELSE (IF i \in valid THEN << list[i] >> ELSE << >>) \o Retained(list, valid, i + 1)

Init ==
    /\ \E n \in 0..MaxSettlements :
           \E ss \in [1..n -> Settlements] : settlements = SolverSettlementList(ss)
    /\ \E call \in Calls :
           /\ min_order_age = call.min_order_age
           /\ auction_id = call.auction_id
    /\ now = 2
    /\ pc = "call"
    /\ settle_orders_older_than = 0
    /\ valid_trades = {}
    /\ valid_settlement_indices = {}
    /\ new_order_added = FALSE
    /\ index = 0
    /\ notifications = << >>
    /\ result = << >>
    /\ passes = 0
    /\ marked = << >>
    /\ rated = NoRated
    /\ obj_value = FromInteger(0)
    /\ opc = "off"
    /\ solution = NoSolution
    /\ encoded = Null
    /\ spc = "off"

\* lines 69-76: the cutoff is taken, the sets are empty, the first pass begins
Enter ==
    /\ pc = "call"
    /\ settle_orders_older_than' = now - min_order_age
    /\ valid_trades' = {}
    /\ valid_settlement_indices' = {}
    /\ new_order_added' = FALSE
    /\ index' = 1
    /\ passes' = 1
    /\ pc' = "for"
    /\ UNCHANGED << settlements, min_order_age, auction_id, now, notifications,
                    result, marked, objective_vars, solution_vars >>

\* lines 78-96: one settlement is examined
Examine ==
    /\ pc = "for"
    /\ index <= Len(settlements)
    /\ LET st == ForBody(LoopState(valid_trades, valid_settlement_indices, new_order_added),
                         settlements, index, settle_orders_older_than)
       IN  /\ valid_trades' = st.valid_trades
           /\ valid_settlement_indices' = st.valid_settlement_indices
           /\ new_order_added' = st.new_order_added
           /\ marked' = IF st.valid_settlement_indices # valid_settlement_indices
                        THEN Append(marked, index) ELSE marked
    /\ index' = index + 1
    /\ UNCHANGED << settlements, min_order_age, auction_id, now, pc,
                    settle_orders_older_than, notifications, result, passes,
                    objective_vars, solution_vars >>

\* lines 98-100 then 75-76: the pass is over; break, or begin the next pass
EndPass ==
    /\ pc = "for"
    /\ index > Len(settlements)
    /\ IF LoopBreaks(new_order_added)
       THEN /\ pc' = "notify"
            /\ UNCHANGED << new_order_added, passes >>
       ELSE /\ pc' = "for"
            /\ new_order_added' = FALSE
            /\ passes' = passes + 1
    /\ index' = 1
    /\ UNCHANGED << settlements, min_order_age, auction_id, now,
                    settle_orders_older_than, valid_trades,
                    valid_settlement_indices, notifications, result, marked,
                    objective_vars, solution_vars >>

\* lines 106-119: the next excluded settlement's solver is notified
Notify ==
    /\ pc = "notify"
    /\ Excluded(Len(settlements), valid_settlement_indices, index) # {}
    /\ LET i == Min(Excluded(Len(settlements), valid_settlement_indices, index))
       IN  /\ notifications' = Append(notifications,
                                      [solver |-> settlements[i].solver,
                                       auction_id |-> auction_id,
                                       result |-> RejectedNoMatureOrders])
           /\ index' = i + 1
    /\ UNCHANGED << settlements, min_order_age, auction_id, now, pc,
                    settle_orders_older_than, valid_trades,
                    valid_settlement_indices, new_order_added, result, passes,
                    marked, objective_vars, solution_vars >>

\* lines 121-126: the valid pairs are returned
Return ==
    /\ pc = "notify"
    /\ Excluded(Len(settlements), valid_settlement_indices, index) = {}
    /\ result' = Retained(settlements, valid_settlement_indices, 1)
    /\ pc' = "done"
    /\ UNCHANGED << settlements, min_order_age, auction_id, now,
                    settle_orders_older_than, valid_trades,
                    valid_settlement_indices, new_order_added, index,
                    notifications, passes, marked, objective_vars, solution_vars >>

Next == Enter \/ Examine \/ EndPass \/ Notify \/ Return

Spec == Init /\ [][Next]_vars

(***************************************************************************)
(* find_mature_settlements as one step: line 104 of                        *)
(* retain_mature_settlements calls it and keeps the set it returns.        *)
(***************************************************************************)
FindMatureSettlements ==
    /\ pc = "call"
    /\ settle_orders_older_than' = now - min_order_age
    /\ valid_settlement_indices' =
           find_mature_settlements(settlements, now - min_order_age)
    /\ pc' = "found"
    /\ UNCHANGED << settlements, min_order_age, auction_id, now, valid_trades,
                    new_order_added, index, notifications, result, passes,
                    marked, objective_vars, solution_vars >>

NextFind == FindMatureSettlements

SpecFind == Init /\ [][NextFind]_vars

(***************************************************************************)
(* The filter under a running clock: Utc::now() is read at line 69 only,   *)
(* and time passes before, during and after the call.                      *)
(***************************************************************************)
\* a second passes
Tick ==
    /\ now < MaxNow
    /\ now' = now + 1
    /\ UNCHANGED << settlements, min_order_age, auction_id, pc,
                    settle_orders_older_than, valid_trades,
                    valid_settlement_indices, new_order_added, index,
                    notifications, result, passes, marked, objective_vars,
                    solution_vars >>

NextClock == Enter \/ Examine \/ EndPass \/ Notify \/ Return \/ Tick

\* the calls of the filter watched under the running clock
InitClock == Init /\ Len(settlements) <= MaxClockSettlements

SpecClock == InitClock /\ [][NextClock]_vars

(***************************************************************************)
(* Rating one settlement: RatedSettlement::objective_value is called on a  *)
(* record whose fields were estimated upstream.                            *)
(***************************************************************************)
\* the amounts, in wei or wei per gas unit, as fractions
Amounts == { Rat(n, d) : n \in 0..MaxNum, d \in 1..MaxDen }

\* the gas prices of the unit test, in units of 10^15 wei per gas unit:
\* 10, 30 and 50 gwei
TestGasPrices == { Rat(1, 100000), Rat(3, 100000), Rat(5, 100000) }

\* the unit test's settlements, in units of 10^15 wei: surplus 1.003 and 1.009 ETH,
\* fees 0.001 ETH, gas estimates 300000 and 500000
TestRated ==
    { [surplus |-> FromInteger(s), unscaled_subsidized_fee |-> FromInteger(0),
       scaled_unsubsidized_fee |-> FromInteger(1), gas_estimate |-> g, gas_price |-> p] :
      s \in {1003, 1009}, g \in {300000, 500000}, p \in TestGasPrices }

RatedSettlements ==
    [surplus : Amounts, unscaled_subsidized_fee : Amounts,
     scaled_unsubsidized_fee : Amounts, gas_estimate : 0..MaxGas,
     gas_price : Amounts] \cup TestRated

InitObjective ==
    /\ rated \in RatedSettlements
    /\ obj_value = FromInteger(0)
    /\ opc = "rated"
    /\ solution = NoSolution
    /\ encoded = Null
    /\ spc = "off"
    /\ settlements = << >>
    /\ min_order_age = 0
    /\ auction_id = 1
    /\ now = 2
    /\ pc = "off"
    /\ settle_orders_older_than = 0
    /\ valid_trades = {}
    /\ valid_settlement_indices = {}
    /\ new_order_added = FALSE
    /\ index = 0
    /\ notifications = << >>
    /\ result = << >>
    /\ passes = 0
    /\ marked = << >>

\* lines 41-49: the objective value of the rated settlement is computed
ObjectiveValue ==
    /\ opc = "rated"
    /\ obj_value' = objective_value(rated)
    /\ opc' = "valued"
    /\ UNCHANGED << rated, filter_vars, solution_vars >>

NextObjective == ObjectiveValue

SpecObjective == InitObjective /\ [][NextObjective]_vars
(***************************************************************************)
(* The solvers' Solution DTO: crates/solvers/src/api/dto/solution.rs.      *)
(* Identifiers and JSON strings are sequences of characters, so that the   *)
(* renaming rules of the serde attributes are computed letter by letter.   *)
(* A JSON object is the sequence of its <<key, value>> entries in the      *)
(* order the serializer wrote them; nothing merges entries of equal keys.  *)
(***************************************************************************)
JsonString(chars) == [type |-> "string", chars |-> chars]

JsonNumber(n) == [type |-> "number", n |-> n]

JsonBool(b) == [type |-> "bool", b |-> b]

JsonArray(items) == [type |-> "array", items |-> items]

JsonObject(entries) == [type |-> "object", entries |-> entries]

LowerCaseLetters ==
    << "a", "b", "c", "d", "e", "f", "g", "h", "i", "j", "k", "l", "m", "n", "o", "p", "q", "r", "s", "t", "u", "v", "w", "x", "y", "z" >>

UpperCaseLetters ==
    << "A", "B", "C", "D", "E", "F", "G", "H", "I", "J", "K", "L", "M", "N", "O", "P", "Q", "R", "S", "T", "U", "V", "W", "X", "Y", "Z" >>

to_ascii_lowercase(c) ==
    IF \E k \in DOMAIN UpperCaseLetters : UpperCaseLetters[k] = c
    THEN LowerCaseLetters[CHOOSE k \in DOMAIN UpperCaseLetters : UpperCaseLetters[k] = c]
    ELSE c

to_ascii_uppercase(c) ==
    IF \E k \in DOMAIN LowerCaseLetters : LowerCaseLetters[k] = c
    THEN UpperCaseLetters[CHOOSE k \in DOMAIN LowerCaseLetters : LowerCaseLetters[k] = c]
    ELSE c

\* rename_all = "lowercase" on the variants of an enum
LowerCase(variant) == [k \in DOMAIN variant |-> to_ascii_lowercase(variant[k])]

RECURSIVE PascalCase(_, _, _)
\* serde's PascalCase of a snake_case field, from position k on: underscores
\* are dropped and the letter after each is capitalised
PascalCase(field, k, capitalize) ==
    IF k > Len(field) THEN << >>
    ELSE IF field[k] = "_" THEN PascalCase(field, k + 1, TRUE)
    ELSE << IF capitalize THEN to_ascii_uppercase(field[k]) ELSE field[k] >>
             \o PascalCase(field, k + 1, FALSE)

\* rename_all = "camelCase" on the fields of a struct
CamelCase(field) ==
    LET pascal == PascalCase(field, 1, TRUE)
    IN  IF pascal = << >> THEN << >>
        ELSE << to_ascii_lowercase(pascal[1]) >> \o Tail(pascal)

\* a struct without rename_all keeps the names of its fields
AsWritten(field) == field

DecimalDigits == << "0", "1", "2", "3", "4", "5", "6", "7", "8", "9" >>

HexDigits == << "0", "1", "2", "3", "4", "5", "6", "7", "8", "9", "a", "b", "c", "d", "e", "f" >>

RECURSIVE Decimal(_)
Decimal(n) ==
    IF n < 10 THEN << DecimalDigits[n + 1] >>
    ELSE Decimal(n \div 10) \o << DecimalDigits[(n % 10) + 1] >>

RECURSIVE HexOf(_)
HexOf(bytes) ==
    IF bytes = << >> THEN << >>
    ELSE << HexDigits[(Head(bytes) \div 16) + 1], HexDigits[(Head(bytes) % 16) + 1] >>
             \o HexOf(Tail(bytes))

\* serialize::U256: the number as a string of decimal digits
serialize_U256(n) == JsonString(Decimal(n))

\* serialize::Hex: the bytes as a string of lowercase hex digits after 0x
serialize_Hex(bytes) == JsonString(<< "0", "x" >> \o HexOf(bytes))

\* H160 as ethereum_types writes it
serialize_H160(address) == JsonString(<< "0", "x" >> \o HexOf(address))

\* a unit variant of an enum with rename_all = "lowercase": Kind,
\* SellTokenBalance, BuyTokenBalance, SigningScheme
serialize_unit_variant(variant) == JsonString(LowerCase(variant))

\* Vec<T>: the array of its items, each already written
serialize_Vec(items) == JsonArray(items)

\* lines 34-42: the fields of Fulfillment, renamed to camelCase
serialize_Fulfillment(self) ==
    << << CamelCase(<< "o", "r", "d", "e", "r" >>), serialize_Hex(self.order) >>,
       << CamelCase(<< "e", "x", "e", "c", "u", "t", "e", "d", "_", "a", "m", "o", "u", "n", "t" >>),
          serialize_U256(self.executed_amount) >> >>

\* lines 52-74: JitOrder, an object of its own with a field named kind
serialize_JitOrder(self) ==
    JsonObject(
    << << AsWritten(<< "s", "e", "l", "l", "_", "t", "o", "k", "e", "n" >>),
          serialize_H160(self.sell_token) >>,
       << AsWritten(<< "b", "u", "y", "_", "t", "o", "k", "e", "n" >>),
          serialize_H160(self.buy_token) >>,
       << AsWritten(<< "r", "e", "c", "e", "i", "v", "e", "r" >>),
          serialize_H160(self.receiver) >>,
       << AsWritten(<< "s", "e", "l", "l", "_", "a", "m", "o", "u", "n", "t" >>),
          serialize_U256(self.sell_amount) >>,
       << AsWritten(<< "b", "u", "y", "_", "a", "m", "o", "u", "n", "t" >>),
          serialize_U256(self.buy_amount) >>,
       << AsWritten(<< "v", "a", "l", "i", "d", "_", "t", "o" >>), JsonNumber(self.valid_to) >>,
       << AsWritten(<< "a", "p", "p", "_", "d", "a", "t", "a" >>), serialize_Hex(self.app_data) >>,
       << AsWritten(<< "f", "e", "e", "_", "a", "m", "o", "u", "n", "t" >>),
          serialize_U256(self.fee_amount) >>,
       << AsWritten(<< "k", "i", "n", "d" >>), serialize_unit_variant(self.kind) >>,
       << AsWritten(<< "p", "a", "r", "t", "i", "a", "l", "l", "y", "_", "f", "i", "l", "l", "a", "b", "l", "e" >>),
          JsonBool(self.partially_fillable) >>,
       << AsWritten(<< "s", "e", "l", "l", "_", "t", "o", "k", "e", "n", "_", "b", "a", "l", "a", "n", "c", "e" >>),
          serialize_unit_variant(self.sell_token_balance) >>,
       << AsWritten(<< "b", "u", "y", "_", "t", "o", "k", "e", "n", "_", "b", "a", "l", "a", "n", "c", "e" >>),
          serialize_unit_variant(self.buy_token_balance) >>,
       << AsWritten(<< "s", "i", "g", "n", "i", "n", "g", "_", "s", "c", "h", "e", "m", "e" >>),
          serialize_unit_variant(self.signing_scheme) >>,
       << AsWritten(<< "s", "i", "g", "n", "a", "t", "u", "r", "e" >>), serialize_Hex(self.signature) >> >>)

\* lines 44-50: the fields of JitTrade, with their names as written
serialize_JitTrade(self) ==
    << << AsWritten(<< "o", "r", "d", "e", "r" >>), serialize_JitOrder(self.order) >>,
       << AsWritten(<< "e", "x", "e", "c", "u", "t", "e", "d", "_", "a", "m", "o", "u", "n", "t" >>),
          serialize_U256(self.executed_amount) >> >>

\* slip: the enum without its tag attribute, which serde then writes as an
\* object with the variant's name as its only key
serialize_Trade_externally_tagged(self) ==
    JsonObject(
    << << LowerCase(self.variant),
          JsonObject(IF self.variant = << "F", "u", "l", "f", "i", "l", "l", "m", "e", "n", "t" >>
                     THEN serialize_Fulfillment(self.value)
                     ELSE serialize_JitTrade(self.value)) >> >>)

\* lines 27-32: #[serde(tag = "kind", rename_all = "lowercase")]: the entry
\* kind, with the variant's name in lowercase, is written first and the
\* fields of the variant's struct follow it in the same object
serialize_Trade(self) ==
    JsonObject(
    << << << "k", "i", "n", "d" >>, JsonString(LowerCase(self.variant)) >> >>
    \o (IF self.variant = << "F", "u", "l", "f", "i", "l", "l", "m", "e", "n", "t" >>
        THEN serialize_Fulfillment(self.value)
        ELSE serialize_JitTrade(self.value)))

\* lines 90-102: the fields of LiquidityInteraction, renamed to camelCase
serialize_LiquidityInteraction(self) ==
    << << CamelCase(<< "i", "n", "t", "e", "r", "n", "a", "l", "i", "z", "e" >>),
          JsonBool(self.internalize) >>,
       << CamelCase(<< "i", "d" >>), JsonNumber(self.id) >>,
       << CamelCase(<< "i", "n", "p", "u", "t", "_", "t", "o", "k", "e", "n" >>),
          serialize_H160(self.input_token) >>,
       << CamelCase(<< "o", "u", "t", "p", "u", "t", "_", "t", "o", "k", "e", "n" >>),
          serialize_H160(self.output_token) >>,
       << CamelCase(<< "i", "n", "p", "u", "t", "_", "a", "m", "o", "u", "n", "t" >>),
          serialize_U256(self.input_amount) >>,
       << CamelCase(<< "o", "u", "t", "p", "u", "t", "_", "a", "m", "o", "u", "n", "t" >>),
          serialize_U256(self.output_amount) >> >>

\* lines 119-125
serialize_Asset(self) ==
    JsonObject(
    << << AsWritten(<< "t", "o", "k", "e", "n" >>), serialize_H160(self.token) >>,
       << AsWritten(<< "a", "m", "o", "u", "n", "t" >>), serialize_U256(self.amount) >> >>)

\* lines 127-134
serialize_Allowance(self) ==
    JsonObject(
    << << AsWritten(<< "t", "o", "k", "e", "n" >>), serialize_H160(self.token) >>,
       << AsWritten(<< "s", "p", "e", "n", "d", "e", "r" >>), serialize_H160(self.spender) >>,
       << AsWritten(<< "a", "m", "o", "u", "n", "t" >>), serialize_U256(self.amount) >> >>)

\* lines 104-117: the fields of CustomInteraction, renamed to camelCase
serialize_CustomInteraction(self) ==
    << << CamelCase(<< "i", "n", "t", "e", "r", "n", "a", "l", "i", "z", "e" >>),
          JsonBool(self.internalize) >>,
       << CamelCase(<< "t", "a", "r", "g", "e", "t" >>), serialize_H160(self.target) >>,
       << CamelCase(<< "v", "a", "l", "u", "e" >>), serialize_U256(self.value) >>,
       << CamelCase(<< "c", "a", "l", "l", "_", "d", "a", "t", "a" >>), serialize_Hex(self.call_data) >>,
       << CamelCase(<< "a", "l", "l", "o", "w", "a", "n", "c", "e", "s" >>),
          serialize_Vec([k \in DOMAIN self.allowances |-> serialize_Allowance(self.allowances[k])]) >>,
       << CamelCase(<< "i", "n", "p", "u", "t", "s" >>), serialize_Vec([k \in DOMAIN self.inputs |-> serialize_Asset(self.inputs[k])]) >>,
       << CamelCase(<< "o", "u", "t", "p", "u", "t", "s" >>), serialize_Vec([k \in DOMAIN self.outputs |-> serialize_Asset(self.outputs[k])]) >> >>

\* lines 83-88: #[serde(tag = "kind")]: the entry kind carries the variant's
\* name as it is written, and the fields of the variant's struct follow
serialize_Interaction(self) ==
    JsonObject(
    << << << "k", "i", "n", "d" >>, JsonString(self.variant) >> >>
    \o (IF self.variant = << "L", "i", "q", "u", "i", "d", "i", "t", "y" >>
        THEN serialize_LiquidityInteraction(self.value)
        ELSE serialize_CustomInteraction(self.value)))

\* lines 21-22: HashMap<H160, U256>, its entries in the order `keys`, the
\* order the map happens to iterate in
serialize_prices(prices, keys) ==
    JsonObject([k \in DOMAIN keys |->
                   << HexOf(keys[k]), serialize_U256(prices[keys[k]]) >>])

\* lines 18-25: Solution, its fields in the order of declaration
serialize_Solution(self, keys) ==
    JsonObject(
    << << AsWritten(<< "p", "r", "i", "c", "e", "s" >>), serialize_prices(self.prices, keys) >>,
       << AsWritten(<< "t", "r", "a", "d", "e", "s" >>), serialize_Vec([k \in DOMAIN self.trades |-> serialize_Trade(self.trades[k])]) >>,
       << AsWritten(<< "i", "n", "t", "e", "r", "a", "c", "t", "i", "o", "n", "s" >>),
          serialize_Vec([k \in DOMAIN self.interactions |-> serialize_Interaction(self.interactions[k])]) >> >>)

(***************************************************************************)
(* The solutions handed to the serializer.  Byte arrays are shortened:     *)
(* an address is one byte, an order uid and a hash are two.                *)
(***************************************************************************)
\* longest lists of trades and of interactions of a solution
MaxTrades == 2

MaxInteractions == 2

Tokens == { << 1 >>, << 2 >> }

Fulfillments ==
    { [order |-> uid, executed_amount |-> 1000] : uid \in { << 0, 171 >>, << 255, 16 >> } }

JitOrders ==
    { [sell_token |-> << 1 >>, buy_token |-> << 2 >>, receiver |-> << 3 >>,
       sell_amount |-> 100, buy_amount |-> 90, valid_to |-> 5,
       app_data |-> << 0, 0 >>, fee_amount |-> 0, kind |-> k,
       partially_fillable |-> FALSE,
       sell_token_balance |-> << "E", "r", "c", "2", "0" >>,
       buy_token_balance |-> << "I", "n", "t", "e", "r", "n", "a", "l" >>,
       signing_scheme |-> << "E", "i", "p", "1", "2", "7", "1" >>,
       signature |-> << 222, 173 >>] :
      k \in { << "S", "e", "l", "l" >>, << "B", "u", "y" >> } }

JitTrades == { [order |-> o, executed_amount |-> 100] : o \in JitOrders }

\* enum Trade: the variant and the struct it wraps
Trades ==
    { [variant |-> << "F", "u", "l", "f", "i", "l", "l", "m", "e", "n", "t" >>, value |-> f] : f \in Fulfillments }
    \cup { [variant |-> << "J", "i", "t" >>, value |-> j] : j \in JitTrades }

LiquidityInteractions ==
    { [internalize |-> b, id |-> 0, input_token |-> << 1 >>, output_token |-> << 2 >>,
       input_amount |-> 100, output_amount |-> 90] : b \in BOOLEAN }

CustomInteractions ==
    { [internalize |-> b, target |-> << 4 >>, value |-> 0, call_data |-> << 18, 52 >>,
       allowances |-> << [token |-> << 1 >>, spender |-> << 4 >>, amount |-> 100] >>,
       inputs |-> << [token |-> << 1 >>, amount |-> 100] >>,
       outputs |-> << >>] : b \in BOOLEAN }

\* enum Interaction: the variant and the struct it wraps
Interactions ==
    { [variant |-> << "L", "i", "q", "u", "i", "d", "i", "t", "y" >>, value |-> l] :
      l \in LiquidityInteractions }
    \cup { [variant |-> << "C", "u", "s", "t", "o", "m" >>, value |-> c] : c \in CustomInteractions }

\* the price maps: a price for any of the tokens
PriceMaps == UNION { [T -> { 1000 }] : T \in SUBSET Tokens }

\* the orders a HashMap of these keys may iterate in
KeyOrders(prices) ==
    { keys \in [1..Cardinality(DOMAIN prices) -> DOMAIN prices] :
        \A a, b \in DOMAIN keys : a # b => keys[a] # keys[b] }

InitSolution ==
    /\ \E prices \in PriceMaps :
       \E n \in 0..MaxTrades : \E trades_ \in [1..n -> Trades] :
       \E m \in 0..MaxInteractions : \E interactions \in [1..m -> Interactions] :
           solution = [prices |-> prices, trades |-> trades_,
                       interactions |-> interactions]
    /\ encoded = Null
    /\ spc = "built"
    /\ rated = NoRated
    /\ obj_value = FromInteger(0)
    /\ opc = "off"
    /\ settlements = << >>
    /\ min_order_age = 0
    /\ auction_id = 1
    /\ now = 2
    /\ pc = "off"
    /\ settle_orders_older_than = 0
    /\ valid_trades = {}
    /\ valid_settlement_indices = {}
    /\ new_order_added = FALSE
    /\ index = 0
    /\ notifications = << >>
    /\ result = << >>
    /\ passes = 0
    /\ marked = << >>

\* lines 18-25: serde's Serialize writes the solution
Serialize ==
    /\ spc = "built"
    /\ \E keys \in KeyOrders(solution.prices) :
           encoded' = serialize_Solution(solution, keys)
    /\ spc' = "encoded"
    /\ UNCHANGED << solution, filter_vars, objective_vars >>

NextSolution == Serialize

SpecSolution == InitSolution /\ [][NextSolution]_vars

(***************************************************************************)
(* Vocabulary of the properties, stated on the data alone.                 *)
(***************************************************************************)
\* the user trades of a settlement: those of a Market or a Limit order
UserTradesOf(settlement) ==
    { settlement.trades[k] : k \in { j \in DOMAIN settlement.trades :
                                      settlement.trades[j].class \in {"Market", "Limit"} } }

LiquidityTradesOf(settlement) ==
    { settlement.trades[k] : k \in { j \in DOMAIN settlement.trades :
                                      settlement.trades[j].class = "Liquidity" } }

UserUidsOf(settlement) == { t.uid : t \in UserTradesOf(settlement) }

\* the trade's order is at least min_order_age old when the filter is called
MatureByAge(trade) == now - trade.creation_date >= min_order_age

HasUserOrderMatureByAge(i) ==
    \E t \in UserTradesOf(settlements[i].settlement) : MatureByAge(t)

\* settlements a and b of the list share the uid of a user order of both
ShareUserOrder(a, b) ==
    UserUidsOf(settlements[a].settlement) \cap UserUidsOf(settlements[b].settlement) # {}

RECURSIVE AssociatedWith(_)
\* the settlements reached from those in S along chains of shared user orders
AssociatedWith(S) ==
    LET more == S \cup { b \in DOMAIN settlements : \E a \in S : ShareUserOrder(a, b) }
    IN  IF more = S THEN S ELSE AssociatedWith(more)

\* the pair at position i is in the returned list
IsRetained(i) == \E k \in DOMAIN result : result[k] = settlements[i]

Done == pc = "done"

(***************************************************************************)
(* C1: when the filter has returned, every settlement linked to a retained *)
(* (mature) settlement by a chain of settlements that pairwise share the   *)
(* uid of a user order (Market or Limit in both) is retained as well,      *)
(* whatever the length of the chain and the positions in the list.         *)
(***************************************************************************)
C1_MatureByAssociation ==
    Done =>
        \A a \in DOMAIN settlements :
            a \in valid_settlement_indices =>
                \A b \in AssociatedWith({a}) :
                    b \in valid_settlement_indices /\ IsRetained(b)

\* a chain S1 - S2 - S3 in list order whose only old user order is in S3:
\* S1 and S3 share nothing, three marking passes were needed, all are retained
C1_Witness ==
    /\ Done
    /\ Len(settlements) = 3
    /\ ShareUserOrder(1, 2) /\ ShareUserOrder(2, 3) /\ ~ShareUserOrder(1, 3)
    /\ ~HasUserOrderMatureByAge(1) /\ ~HasUserOrderMatureByAge(2)
    /\ HasUserOrderMatureByAge(3)
    /\ marked = << 3, 2, 1 >>
    /\ Len(result) = 3

(***************************************************************************)
(* C2: a settlement with at least one user order (Market or Limit) at      *)
(* least min_order_age old is retained, whatever the other settlements of  *)
(* the list and whatever its other trades.                                 *)
(***************************************************************************)
C2_MatureByAge ==
    Done =>
        \A i \in DOMAIN settlements :
            HasUserOrderMatureByAge(i) =>
                i \in valid_settlement_indices /\ IsRetained(i)

\* an old user order beside a recent user order and a liquidity order is
\* retained while the rest of the list is rejected
C2_Witness ==
    /\ Done
    /\ Len(settlements) = 3
    /\ min_order_age = 1
    /\ HasUserOrderMatureByAge(2)
    /\ \E t \in UserTradesOf(settlements[2].settlement) : ~MatureByAge(t)
    /\ LiquidityTradesOf(settlements[2].settlement) # {}
    /\ valid_settlement_indices = {2}
    /\ result = << settlements[2] >>

(***************************************************************************)
(* C3: every settlement marked valid has a user trade that is mature by    *)
(* age or whose uid is that of a user trade of a settlement marked before  *)
(* it; the returned pairs are marked valid.  Hence a settlement without    *)
(* user trades is never retained, and when no user order of the list is    *)
(* mature by age the result is empty.                                      *)
(***************************************************************************)
C3_OnlyMatureRetained ==
    /\ valid_settlement_indices = { marked[k] : k \in DOMAIN marked }
    /\ \A k \in DOMAIN marked :
           \E t \in UserTradesOf(settlements[marked[k]].settlement) :
               \/ MatureByAge(t)
               \/ \E j \in 1..(k - 1) :
                      t.uid \in UserUidsOf(settlements[marked[j]].settlement)
    /\ \A k \in DOMAIN result :
           \E i \in valid_settlement_indices : result[k] = settlements[i]
    /\ \A i \in DOMAIN settlements :
           UserTradesOf(settlements[i].settlement) = {} => i \notin valid_settlement_indices
    /\ (Done /\ \A i \in DOMAIN settlements : ~HasUserOrderMatureByAge(i)) => result = << >>

\* three settlements with recent user orders only, two of them sharing one,
\* and one without user trades: nothing is retained
C3_Witness ==
    /\ Done
    /\ Len(settlements) = 3
    /\ ShareUserOrder(1, 2)
    /\ UserTradesOf(settlements[3].settlement) = {}
    /\ LiquidityTradesOf(settlements[3].settlement) # {}
    /\ \A i \in DOMAIN settlements : ~HasUserOrderMatureByAge(i)
    /\ result = << >>

(***************************************************************************)
(* C4: Liquidity trades neither contribute to nor inherit maturity: the    *)
(* mature-order set only ever holds uids of user trades of settlements     *)
(* marked valid, never the uid of a Liquidity trade, and the settlements   *)
(* marked valid are those the loop marks when every Liquidity trade is     *)
(* removed from the list.                                                  *)
(***************************************************************************)
WithoutLiquidity(list) ==
    [i \in DOMAIN list |->
        [solver |-> list[i].solver,
         settlement |-> [trades |-> SelectSeq(list[i].settlement.trades,
                                              LAMBDA t : t.class # "Liquidity")]]]

C4_LiquidityNeverMatures ==
    /\ valid_trades \subseteq
           UNION { UserUidsOf(settlements[i].settlement) : i \in valid_settlement_indices }
    /\ \A i \in DOMAIN settlements :
           \A t \in LiquidityTradesOf(settlements[i].settlement) : t.uid \notin valid_trades
    /\ Done =>
           valid_settlement_indices =
               find_mature_settlements(WithoutLiquidity(settlements), now - min_order_age)

\* S1(recent 1, recent 2) and S2(recent 2, old Liquidity 4) are both rejected
C4_Witness ==
    /\ Done
    /\ min_order_age = 1
    /\ Len(settlements) = 2
    /\ UserUidsOf(settlements[1].settlement) = {1, 2}
    /\ UserUidsOf(settlements[2].settlement) = {2}
    /\ \E t \in LiquidityTradesOf(settlements[2].settlement) : MatureByAge(t)
    /\ valid_trades = {}
    /\ result = << >>
    /\ Len(notifications) = 2
(***************************************************************************)
(* C5: the settlements retained do not depend on the order of the list:    *)
(* for every permutation of the list handed to the filter, with the same   *)
(* cutoff, the loop marks the same settlements; only the number of passes  *)
(* may differ.                                                             *)
(***************************************************************************)
\* the list with the pair at position p[i] moved to position i
Permuted(list, p) == [i \in DOMAIN list |-> list[p[i]]]

Found == pc = "found"

C5_OrderIndependent ==
    Found =>
        \A p \in Permutations(DOMAIN settlements) :
            { p[i] : i \in find_mature_settlements(Permuted(settlements, p),
                                                   settle_orders_older_than) }
                = valid_settlement_indices

RECURSIVE PassesOf(_, _, _)
\* the number of passes the loop makes on a list, from loop state st on
PassesOf(st, list, cutoff) ==
    LET after == RunPass(LoopState(st.valid_trades, st.valid_settlement_indices, FALSE),
                         list, 1, cutoff)
    IN  IF after.new_order_added THEN 1 + PassesOf(after, list, cutoff) ELSE 1

\* a chain S1 - S2 - S3 whose only old user order is in S3 is marked back to
\* front in three passes; its reversal takes two
C5_Witness ==
    /\ Found
    /\ Len(settlements) = 3
    /\ valid_settlement_indices = {1, 2, 3}
    /\ ~HasUserOrderMatureByAge(1) /\ ~HasUserOrderMatureByAge(2)
    /\ PassesOf(LoopState({}, {}, FALSE), settlements, settle_orders_older_than) = 3
    /\ PassesOf(LoopState({}, {}, FALSE),
                Permuted(settlements, [i \in 1..3 |-> 4 - i]),
                settle_orders_older_than) = 2

(***************************************************************************)
(* C6: in one call, each solver is notified once for each of its excluded  *)
(* settlements and never for a retained one; every notification carries    *)
(* the call's auction id and Rejected(NoMatureOrders); nothing is notified *)
(* before the loop has ended, and an empty list notifies nobody.           *)
(***************************************************************************)
NotificationsTo(s) == { k \in DOMAIN notifications : notifications[k].solver = s }

ExcludedOf(s) == { i \in DOMAIN settlements : settlements[i].solver = s /\ ~IsRetained(i) }

C6_OneNotificationPerExcluded ==
    /\ pc \notin {"notify", "done"} => notifications = << >>
    /\ \A k \in DOMAIN notifications :
           /\ notifications[k].auction_id = auction_id
           /\ notifications[k].result = "Rejected(NoMatureOrders)"
    /\ Done =>
           \A s \in {"solver_a", "solver_b"} :
               Cardinality(NotificationsTo(s)) = Cardinality(ExcludedOf(s))
    /\ settlements = << >> => notifications = << >>

\* solver_a has two settlements excluded and is notified twice; solver_b's
\* settlement is retained and solver_b is not notified
C6_Witness ==
    /\ Done
    /\ Len(settlements) = 3
    /\ valid_settlement_indices = {2}
    /\ auction_id = 2
    /\ notifications[1].auction_id = 2
    /\ Cardinality(NotificationsTo("solver_a")) = 2
    /\ NotificationsTo("solver_b") = {}

(***************************************************************************)
(* C7: the returned list is the subsequence of the list handed in at the   *)
(* valid indices: each valid pair once, unmodified, in the order of the    *)
(* list, whatever the order and the pass in which the loop marked them.    *)
(***************************************************************************)
\* the k-th smallest element of a set of numbers
Kth(S, k) == CHOOSE i \in S : Cardinality({ j \in S : j <= i }) = k

C7_ResultIsSubsequence ==
    Done =>
        /\ Len(result) = Cardinality(valid_settlement_indices)
        /\ \A k \in DOMAIN result :
               result[k] = settlements[Kth(valid_settlement_indices, k)]

\* the third pair is marked a pass before the first, the second is excluded:
\* the first pair still comes first in the result
C7_Witness ==
    /\ Done
    /\ Len(settlements) = 3
    /\ marked = << 3, 1 >>
    /\ settlements[1] # settlements[3]
    /\ result = << settlements[1], settlements[3] >>
(***************************************************************************)
(* C8: the objective value is surplus + solver_fee - gas_estimate *        *)
(* gas_price exactly: the fraction returned, in lowest terms, equals that  *)
(* value with nothing rounded; RatedSettlement::objective_value takes      *)
(* scaled_unsubsidized_fee as the fee and the gas estimate as an integer.  *)
(* The unit test's case, in units of 10^15 wei: surplus 1003, fee 1, gas   *)
(* 300000 at 10 gwei gives exactly 1001.                                   *)
(***************************************************************************)
Valued == opc = "valued"

\* surplus 1.003 ETH, fees 0.001 ETH, gas estimate 300000, gas price 10 gwei
TestCase ==
    [surplus |-> [num |-> 1003, den |-> 1],
     unscaled_subsidized_fee |-> [num |-> 0, den |-> 1],
     scaled_unsubsidized_fee |-> [num |-> 1, den |-> 1],
     gas_estimate |-> 300000,
     gas_price |-> [num |-> 1, den |-> 100000]]

C8_ExactObjectiveValue ==
    Valued =>
        LET s == rated.surplus
            f == rated.scaled_unsubsidized_fee
            g == rated.gas_estimate
            p == rated.gas_price
        IN  /\ obj_value.den > 0
            /\ \A d \in 2..obj_value.den :
                   ~(obj_value.num % d = 0 /\ obj_value.den % d = 0)
            /\ obj_value.num * (s.den * f.den * p.den)
                   = obj_value.den * (s.num * f.den * p.den + f.num * s.den * p.den
                                        - g * p.num * s.den * f.den)
            /\ rated = TestCase => obj_value = [num |-> 1001, den |-> 1]

C8_Witness ==
    /\ Valued
    /\ rated = TestCase
    /\ obj_value = [num |-> 1001, den |-> 1]

(***************************************************************************)
(* C9 as stated: for every surplus, fee and gas estimate, a higher gas     *)
(* price gives a strictly lower objective value.                           *)
(***************************************************************************)
Less(a, b) == a.num * b.den < b.num * a.den

\* the gas prices the rated settlement's price is compared with
OtherGasPrices == IF rated \in TestRated THEN TestGasPrices ELSE Amounts

\* the objective value of the rated settlement at gas price p
ObjectiveValueAt(p) == objective_value([rated EXCEPT !.gas_price = p])

C9_StrictlyDecreasingInGasPrice ==
    Valued =>
        \A p \in OtherGasPrices :
            Less(rated.gas_price, p) => Less(ObjectiveValueAt(p), obj_value)

(***************************************************************************)
(* C9, amended: with a gas estimate above zero a higher gas price gives a  *)
(* strictly lower objective value; with a gas estimate of zero the         *)
(* objective value is the same at every gas price.                         *)
(***************************************************************************)
C9_StrictlyDecreasingForPositiveGas ==
    Valued =>
        \A p \in OtherGasPrices :
            Less(rated.gas_price, p) =>
                IF rated.gas_estimate > 0
                THEN Less(ObjectiveValueAt(p), obj_value)
                ELSE ObjectiveValueAt(p) = obj_value

\* the unit test's first settlement: 1001 at 10 gwei, 995 at 30 gwei
C9_Witness ==
    /\ Valued
    /\ rated = TestCase
    /\ ObjectiveValueAt([num |-> 3, den |-> 100000]) = [num |-> 995, den |-> 1]
    /\ Less(ObjectiveValueAt([num |-> 3, den |-> 100000]), obj_value)

(***************************************************************************)
(* C10: the loop terminates on every list: until the filter has returned a *)
(* step is always possible, and every step lowers a measure that is never  *)
(* negative, so no run goes on for ever; the loop is left only at the end  *)
(* of a pass that added no order uid to the mature-order set, and begins   *)
(* another pass otherwise; the number of passes is at most the number of   *)
(* distinct user-order uids of the list plus one.                          *)
(***************************************************************************)
AllUserUids == UNION { UserUidsOf(settlements[i].settlement) : i \in DOMAIN settlements }

MostPasses == Cardinality(AllUserUids) + 1

\* the steps left at most: the passes still allowed, the rest of this pass,
\* the notifications and the return
StepsLeft ==
    LET n == Len(settlements)
    IN  CASE pc = "call"   -> (MostPasses + 2) * (n + 1) + 2
          [] pc = "for"    -> (MostPasses - passes) * (n + 1) + (n + 1 - index) + n + 2
          [] pc = "notify" -> (n + 1 - index) + 1
          [] OTHER         -> 0

C10_LoopTerminates ==
    /\ [](passes <= MostPasses)
    /\ [](StepsLeft >= 0)
    /\ [](~Done => ENABLED Next)
    /\ [][StepsLeft' < StepsLeft]_vars
    /\ [][pc = "for" /\ index > Len(settlements) =>
             IF new_order_added
             THEN pc' = "for" /\ passes' = passes + 1 /\ valid_trades' = valid_trades
             ELSE pc' = "notify" /\ passes' = passes]_vars

\* a chain marked back to front: three passes for three user-order uids
C10_Witness ==
    /\ Done
    /\ passes = 3
    /\ Cardinality(AllUserUids) = 3
    /\ Len(marked) = 3

(***************************************************************************)
(* C11: in the encoded Solution every trade and every interaction is an    *)
(* object with exactly one entry named kind, a string: fulfillment for a   *)
(* Fulfillment trade and jit for a Jit trade, Liquidity for a Liquidity    *)
(* interaction and Custom for a Custom one; two encoded trades, or two     *)
(* encoded interactions, carry the same tag only when they are of the same *)
(* variant.                                                                *)
(***************************************************************************)
Encoded == spc = "encoded"

\* the positions of the entries of a JSON object whose key spells `key`
PositionsOf(object, key) == { k \in DOMAIN object.entries : object.entries[k][1] = key }

\* the value of an entry of that key
ValueOf(object, key) == object.entries[CHOOSE k \in PositionsOf(object, key) : TRUE][2]

\* the object carries exactly one discriminant, a string
HasOneTag(object) ==
    /\ object.type = "object"
    /\ Cardinality(PositionsOf(object, << "k", "i", "n", "d" >>)) = 1
    /\ ValueOf(object, << "k", "i", "n", "d" >>).type = "string"

TagOf(object) == ValueOf(object, << "k", "i", "n", "d" >>).chars

EncodedTrades == ValueOf(encoded, << "t", "r", "a", "d", "e", "s" >>).items

EncodedInteractions == ValueOf(encoded, << "i", "n", "t", "e", "r", "a", "c", "t", "i", "o", "n", "s" >>).items

C11_ExplicitDiscriminantTags ==
    Encoded =>
        /\ Len(EncodedTrades) = Len(solution.trades)
        /\ Len(EncodedInteractions) = Len(solution.interactions)
        /\ \A k \in DOMAIN EncodedTrades :
               /\ HasOneTag(EncodedTrades[k])
               /\ TagOf(EncodedTrades[k]) =
                      (IF solution.trades[k].variant = << "F", "u", "l", "f", "i", "l", "l", "m", "e", "n", "t" >>
                       THEN << "f", "u", "l", "f", "i", "l", "l", "m", "e", "n", "t" >>
                       ELSE << "j", "i", "t" >>)
        /\ \A k \in DOMAIN EncodedInteractions :
               /\ HasOneTag(EncodedInteractions[k])
               /\ TagOf(EncodedInteractions[k]) =
                      (IF solution.interactions[k].variant = << "L", "i", "q", "u", "i", "d", "i", "t", "y" >>
                       THEN << "L", "i", "q", "u", "i", "d", "i", "t", "y" >>
                       ELSE << "C", "u", "s", "t", "o", "m" >>)
        /\ \A j, k \in DOMAIN EncodedTrades :
               TagOf(EncodedTrades[j]) = TagOf(EncodedTrades[k])
                   <=> solution.trades[j].variant = solution.trades[k].variant
        /\ \A j, k \in DOMAIN EncodedInteractions :
               TagOf(EncodedInteractions[j]) = TagOf(EncodedInteractions[k])
                   <=> solution.interactions[j].variant = solution.interactions[k].variant

\* a Fulfillment and a Jit trade, a Liquidity and a Custom interaction: the
\* Jit trade is tagged jit although the order inside it has a field kind too
C11_Witness ==
    /\ Encoded
    /\ Len(solution.trades) = 2
    /\ solution.trades[1].variant = << "F", "u", "l", "f", "i", "l", "l", "m", "e", "n", "t" >>
    /\ solution.trades[2].variant = << "J", "i", "t" >>
    /\ Len(solution.interactions) = 2
    /\ solution.interactions[1].variant = << "L", "i", "q", "u", "i", "d", "i", "t", "y" >>
    /\ solution.interactions[2].variant = << "C", "u", "s", "t", "o", "m" >>
    /\ TagOf(EncodedTrades[1]) = << "f", "u", "l", "f", "i", "l", "l", "m", "e", "n", "t" >>
    /\ TagOf(EncodedTrades[2]) = << "j", "i", "t" >>
    /\ TagOf(ValueOf(EncodedTrades[2], << "o", "r", "d", "e", "r" >>)) = << "s", "e", "l", "l" >>
    /\ TagOf(EncodedInteractions[1]) = << "L", "i", "q", "u", "i", "d", "i", "t", "y" >>
    /\ TagOf(EncodedInteractions[2]) = << "C", "u", "s", "t", "o", "m" >>
    /\ PositionsOf(EncodedTrades[1], << "e", "x", "e", "c", "u", "t", "e", "d", "A", "m", "o", "u", "n", "t" >>) = {3}
    /\ PositionsOf(EncodedTrades[2], << "e", "x", "e", "c", "u", "t", "e", "d", "_", "a", "m", "o", "u", "n", "t" >>) = {3}

(***************************************************************************)
(* C12: the closure only grows: no step of the filter removes an index     *)
(* from the set of valid settlement indices or a uid from the mature-order *)
(* set, from one iteration to the next and from one pass to the next, so a *)
(* settlement once marked stays marked; and whenever a settlement is       *)
(* marked valid the uids of all its user trades are in the mature-order    *)
(* set, those of the trades that did not qualify included.                 *)
(***************************************************************************)
C12_ClosureOnlyGrows ==
    /\ [][/\ valid_settlement_indices \subseteq valid_settlement_indices'
          /\ valid_trades \subseteq valid_trades']_vars
    /\ [](\A i \in valid_settlement_indices :
              UserUidsOf(settlements[i].settlement) \subseteq valid_trades)

\* S1(recent 1, recent 2), S2(recent 1, old 3): the first pass marks S2 for
\* order 3 and makes order 1 mature with it, the second marks S1 for order 1
C12_Witness ==
    /\ Done
    /\ min_order_age = 1
    /\ Len(settlements) = 2
    /\ UserUidsOf(settlements[1].settlement) = {1, 2}
    /\ UserUidsOf(settlements[2].settlement) = {1, 3}
    /\ marked = << 2, 1 >>
    /\ passes = 3
    /\ valid_trades = {1, 2, 3}

(***************************************************************************)
(* C13: the cutoff is taken once, when the filter is entered, as the       *)
(* clock's reading then less min_order_age, and no later step changes it,  *)
(* however far the clock has moved on since.  Every settlement marked, in  *)
(* whatever pass, has a user order created at or before that cutoff or     *)
(* shares a user order with a settlement marked before it, and the         *)
(* settlements marked in the end are those reached from a user order       *)
(* created at or before the cutoff.  A creation date is at or before the   *)
(* cutoff exactly when the order was at least min_order_age old at the     *)
(* reading of the clock the cutoff was taken from, the boundary included.  *)
(***************************************************************************)
CreatedByCutoff(trade) == trade.creation_date <= settle_orders_older_than

\* the settlements with a user order created at or before the cutoff
SeedsAtCutoff ==
    { i \in DOMAIN settlements :
        \E t \in UserTradesOf(settlements[i].settlement) : CreatedByCutoff(t) }

AllUserTrades == UNION { UserTradesOf(settlements[i].settlement) : i \in DOMAIN settlements }

C13_CutoffTakenOnce ==
    /\ [][pc = "call" /\ pc' # "call" =>
             /\ settle_orders_older_than' = now - min_order_age
             /\ \A t \in AllUserTrades :
                    t.creation_date <= settle_orders_older_than'
                        <=> now - t.creation_date >= min_order_age]_vars
    /\ [][pc # "call" => settle_orders_older_than' = settle_orders_older_than]_vars
    /\ [](\A k \in DOMAIN marked :
              \E t \in UserTradesOf(settlements[marked[k]].settlement) :
                  \/ CreatedByCutoff(t)
                  \/ \E j \in 1..(k - 1) :
                         t.uid \in UserUidsOf(settlements[marked[j]].settlement))
    /\ [](pc \in {"notify", "done"} =>
              valid_settlement_indices = AssociatedWith(SeedsAtCutoff))

\* S1(recent 1), S2(old 3), called at 2 with min_order_age = 1: order 3 is
\* exactly min_order_age old and S2 is marked in the first pass; in the
\* second pass the clock has moved on, order 1 would be old enough by now,
\* and S1 is still not marked
C13_Witness ==
    /\ pc = "for"
    /\ passes = 2
    /\ index = 2
    /\ min_order_age = 1
    /\ settle_orders_older_than = 1
    /\ now > settle_orders_older_than + min_order_age
    /\ Len(settlements) = 2
    /\ UserTradesOf(settlements[1].settlement)
           = { [uid |-> 1, creation_date |-> 2, class |-> "Market"] }
    /\ UserUidsOf(settlements[2].settlement) = {3}
    /\ now - 2 >= min_order_age
    /\ valid_settlement_indices = {2}
====
